---- MODULE Spec2Model ----
(***************************************************************************)
(* pygridgen: the Gridgen grid object (construction, the focus/ny/nx       *)
(* setters, generate_grid, mask_polygon, to_spec/from_spec), the staggered *)
(* sub-grids it derives from the solved vertices, and the test suite's     *)
(* accepted tables (tests/test_grid.py); and the CSA class of csa.py (the   *)
(* loading of its library, construction, the zin setter, and the call).    *)
(*                                                                         *)
(* Numbers are fixed point.  A coordinate is an integer number of          *)
(* 1/(100*Unit) length units: the tables of the tests are given to two     *)
(* decimals (hundredths), and Unit = 8 leaves three binary places so that  *)
(* the 0.25*(a+b+c+d) and 0.5*(a+b) of the sub-grids are exact.            *)
(***************************************************************************)
EXTENDS Integers, Sequences, FiniteSets, TLC

VARIABLES
    grid,     \* the Gridgen object under use (a record of its attributes)
    grid2,    \* the grid returned by Gridgen.from_spec(grid.to_spec()), if any
    fixture,  \* the test suite: name of the fixture parameter in use
    results,  \* the test suite: outcome of each test run so far
    csa       \* csa.py: the CSA class, the CSA object if any, the last operation

vars == <<grid, grid2, fixture, results, csa>>

\* ---------------------------------------------------------------- bounds
\* largest ny and nx the lifecycle specification assigns
MaxDim == 4

\* largest number of points in an array handed to CSA
MaxPts == 2

\* ------------------------------------------------------------ arithmetic
Unit == 2 * 2 * 2

Abs(a) == IF a < 0 THEN -a ELSE a

Max(a, b) == IF a < b THEN b ELSE a

Min(a, b) == IF a < b THEN a ELSE b

RECURSIVE SetMax(_)
SetMax(S) ==
    IF S = {} THEN 0
    ELSE LET e == CHOOSE e \in S : TRUE
         IN  Max(e, SetMax(S \ {e}))

\* ------------------------------------------------- two-dimensional arrays
\* A numpy array of two dimensions: its shape and its elements, indexed
\* from 0.  An array with an empty axis has no elements and keeps its shape.
Idx(shape) == (0 .. shape[1] - 1) \X (0 .. shape[2] - 1)

MkArray(shape, f(_, _)) ==
    [shape |-> shape,
     data |-> [i \in 1 .. shape[1] |-> [j \in 1 .. shape[2] |-> f(i - 1, j - 1)]]]

\* A[i, j]
At(A, i, j) == A.data[i + 1][j + 1]

\* numpy.array(rows), scaled to the fixed-point unit
FromRows(rows, scale) ==
    MkArray(<<Len(rows), IF Len(rows) = 0 THEN 0 ELSE Len(rows[1])>>,
            LAMBDA i, j : scale * rows[i + 1][j + 1])

\* numpy.ones(shape)
Ones(shape) == MkArray(shape, LAMBDA i, j : 1)

\* A Python slice a:b of one axis; stop is absent in "a:"
From(a) == [start |-> a, open |-> TRUE, stop |-> 0]

Range(a, b) == [start |-> a, open |-> FALSE, stop |-> b]

\* Python's slice.indices: negative positions count from the end, and
\* positions are clipped to the axis
Clip(k, n) == IF k < 0 THEN Max(k + n, 0) ELSE Min(k, n)

SliceLo(s, n) == Clip(s.start, n)

SliceHi(s, n) == IF s.open THEN n ELSE Clip(s.stop, n)

SliceLen(s, n) == Max(SliceHi(s, n) - SliceLo(s, n), 0)

\* A[rs, cs]
Slice(A, rs, cs) ==
    LET r0 == SliceLo(rs, A.shape[1])
        c0 == SliceLo(cs, A.shape[2])
    IN  MkArray(<<SliceLen(rs, A.shape[1]), SliceLen(cs, A.shape[2])>>,
                LAMBDA i, j : At(A, r0 + i, c0 + j))

\* A + B for arrays of one shape
Add(A, B) == MkArray(A.shape, LAMBDA i, j : At(A, i, j) + At(B, i, j))

\* 0.25 * A and 0.5 * A: exact on multiples of Unit
Quarter(A) == MkArray(A.shape, LAMBDA i, j : At(A, i, j) \div 4)

Half(A) == MkArray(A.shape, LAMBDA i, j : At(A, i, j) \div 2)

\* ---------------------------------------------------------- sub-grids
\* The staggered arrays of a vertex array X of shape (ny, nx).
calc_psi(X) == Slice(X, Range(1, -1), Range(1, -1))

\* calc_rho with the row of vertices below the cell taken twice and the row
\* above it left out
calc_rho_one_row(X) ==
    Quarter(Add(Add(Slice(X, From(1), From(1)), Slice(X, From(1), Range(0, -1))),
                Add(Slice(X, From(1), From(1)), Slice(X, From(1), Range(0, -1)))))

calc_rho(X) ==
    Quarter(Add(Add(Slice(X, From(1), From(1)), Slice(X, From(1), Range(0, -1))),
                Add(Slice(X, Range(0, -1), From(1)),
                    Slice(X, Range(0, -1), Range(0, -1)))))

\* calc_u as the mid-point of the cell centres on either side of the edge
calc_u_from_rho(X) ==
    Half(Add(Slice(calc_rho(X), From(0), Range(0, -1)),
             Slice(calc_rho(X), From(0), From(1))))

\* tests/test_grid.py accepts for x_u the mid-point of the two vertices at the
\* ends of a cell edge, X[i][j+1] and X[i+1][j+1], and for x_v that of
\* X[i+1][j] and X[i+1][j+1].
calc_u(X) ==
    Half(Add(Slice(X, Range(0, -1), Range(1, -1)), Slice(X, From(1), Range(1, -1))))

\* calc_v with the slices of calc_u
calc_v_as_u(X) ==
    Half(Add(Slice(X, Range(0, -1), Range(1, -1)), Slice(X, From(1), Range(1, -1))))

calc_v(X) ==
    Half(Add(Slice(X, Range(1, -1), Range(0, -1)), Slice(X, Range(1, -1), From(1))))

\* ------------------------------------------------------- orthogonality
\* One value per grid cell (i, j), taken at the four vertices of the cell:
\* the angle between the grid lines cannot be held in fixed point, so the cell
\* holds the scalar product of its two mean edge vectors, which is zero
\* exactly when they meet at a right angle.
CellDot(X, Y, i, j) ==
    LET dux == (At(X, i, j + 1) - At(X, i, j))
               + (At(X, i + 1, j + 1) - At(X, i + 1, j))
        duy == (At(Y, i, j + 1) - At(Y, i, j))
               + (At(Y, i + 1, j + 1) - At(Y, i + 1, j))
        dvx == (At(X, i + 1, j) - At(X, i, j))
               + (At(X, i + 1, j + 1) - At(X, i, j + 1))
        dvy == (At(Y, i + 1, j) - At(Y, i, j))
               + (At(Y, i + 1, j + 1) - At(Y, i, j + 1))
    IN  (dux \div Unit) * (dvx \div Unit) + (duy \div Unit) * (dvy \div Unit)

\* calculate_orthogonality on the cells that do not touch the last row and
\* column of cells
calculate_orthogonality_inner(X, Y) ==
    MkArray(<<Max(X.shape[1] - 2, 0), Max(X.shape[2] - 2, 0)>>,
            LAMBDA i, j : CellDot(X, Y, i, j))

calculate_orthogonality(X, Y) ==
    MkArray(<<Max(X.shape[1] - 1, 0), Max(X.shape[2] - 1, 0)>>,
            LAMBDA i, j : CellDot(X, Y, i, j))

\* --------------------------------------------------------------- masking
\* A polygon is a sequence of vertices <<x, y>>; its last vertex is joined to
\* its first.
PolyNext(poly, k) == poly[(k % Len(poly)) + 1]

Cross(a, b, p) == (b[1] - a[1]) * (p[2] - a[2]) - (b[2] - a[2]) * (p[1] - a[1])

\* p lies on the closed segment a-b
OnSegment(p, a, b) ==
    /\ Cross(a, b, p) = 0
    /\ Min(a[1], b[1]) <= p[1] /\ p[1] <= Max(a[1], b[1])
    /\ Min(a[2], b[2]) <= p[2] /\ p[2] <= Max(a[2], b[2])

OnEdge(p, poly) ==
    \E k \in 1 .. Len(poly) : OnSegment(p, poly[k], PolyNext(poly, k))

\* the ray from p towards +x crosses the edge a-b
RayCrosses(p, a, b) ==
    /\ (a[2] > p[2]) # (b[2] > p[2])
    /\ LET dy  == b[2] - a[2]
           lhs == (p[1] - a[1]) * dy
           rhs == (p[2] - a[2]) * (b[1] - a[1])
       IN  IF dy > 0 THEN lhs < rhs ELSE lhs > rhs

Crossings(p, poly) ==
    Cardinality({k \in 1 .. Len(poly) : RayCrosses(p, poly[k], PolyNext(poly, k))})

StrictlyInside(p, poly) == ~OnEdge(p, poly) /\ Crossings(p, poly) % 2 = 1

\* points_inside_poly with the edge of the polygon left outside
points_strictly_inside_poly(p, poly) == StrictlyInside(p, poly)

\* a centre on the edge of the polygon counts as inside
points_inside_poly(p, poly) == OnEdge(p, poly) \/ Crossings(p, poly) % 2 = 1

\* Gridgen.mask_polygon(polyverts): the rho cells whose centre is inside the
\* polygon are set to 0, the others keep their value
MaskOf(g, poly) ==
    MkArray(g.mask_rho.shape,
            LAMBDA i, j :
                IF points_inside_poly(<<At(g.x_rho, i, j), At(g.y_rho, i, j)>>,
                                      poly)
                THEN 0
                ELSE At(g.mask_rho, i, j))

\* ------------------------------------------------------------ CGrid
\* The arrays of a grid with vertices X, Y: all sub-grids are computed in one
\* step from the same vertex arrays, and the mask starts as all water.
CGrid(X, Y) ==
    [x |-> X, y |-> Y,
     x_psi |-> calc_psi(X), y_psi |-> calc_psi(Y),
     x_rho |-> calc_rho(X), y_rho |-> calc_rho(Y),
     x_u |-> calc_u(X), y_u |-> calc_u(Y),
     x_v |-> calc_v(X), y_v |-> calc_v(Y),
     mask_rho |-> Ones(calc_rho(X).shape),
     orthogonality |-> calculate_orthogonality(X, Y)]

\* the array attributes of a grid object
ArrayNames ==
    {"x", "y", "x_psi", "y_psi", "x_rho", "y_rho", "x_u", "y_u", "x_v", "y_v",
     "mask_rho", "orthogonality"}

Arrays(g) == [a \in ArrayNames |-> g[a]]

\* -------------------------------------------------------------- boundary
\* A boundary: xbry, ybry (hundredths) and beta, one entry per point.
RECURSIVE SeqSum(_)
SeqSum(s) == IF Len(s) = 0 THEN 0 ELSE Head(s) + SeqSum(Tail(s))

\* BetaSumOk accepting any sum of at least 4
BetaSumAtLeast(beta) == SeqSum(beta) >= 4

\* the sum of beta must be 4
BetaSumOk(beta) == SeqSum(beta) = 4

\* The boundary points in order around the perimeter, starting at ul_idx.
PerimeterOrder(bry, ul_idx) ==
    [k \in 1 .. Len(bry.beta) |-> ((ul_idx + k - 1) % Len(bry.beta)) + 1]

\* positions in PerimeterOrder of the corner points (beta = 1)
CornerPositions(bry, ul_idx) ==
    LET order == PerimeterOrder(bry, ul_idx)
    IN  SelectSeq([k \in 1 .. Len(order) |-> k],
                  LAMBDA k : bry.beta[order[k]] = 1)

BryPoint(bry, k) == <<bry.x[k], bry.y[k]>>

\* The boundary points of logical edge e (1 .. 4), from its first corner to
\* its second; the fourth edge closes the perimeter at the first corner.
EdgePath(bry, ul_idx, e) ==
    LET order == PerimeterOrder(bry, ul_idx)
        cs    == CornerPositions(bry, ul_idx)
        first == cs[e]
        last  == IF e < Len(cs) THEN cs[e + 1] ELSE Len(order)
        along == [k \in 1 .. (last - first + 1) |-> BryPoint(bry, order[first + k - 1])]
    IN  IF e < Len(cs) THEN along ELSE Append(along, BryPoint(bry, order[cs[1]]))

\* ----------------------------------------------------------------- focus
\* Fractions of an edge are held in thousandths.
FracDen == 10 * 10 * 10

\* One focus point moves the fraction t towards (factor > 1) or away from
\* (factor < 1) its position, within its extent; 0 and FracDen stay fixed.
Stretch(fp, t) ==
    LET p     == fp.pos * 10
        d     == p - t
        a     == (d * t) \div FracDen
        b     == (a * (FracDen - t)) \div FracDen
        shift == (b * (fp.factor - 100)) \div fp.factor
    IN  IF Abs(d) * 100 <= fp.extent * FracDen THEN t + shift ELSE t

\* the focus points of one axis apply one after the other, in the order in
\* which they were added; no focus is the identity
RECURSIVE ApplyFocus(_, _, _)
ApplyFocus(focus, axis, t) ==
    IF Len(focus) = 0 THEN t
    ELSE ApplyFocus(Tail(focus), axis,
                    IF Head(focus).axis = axis THEN Stretch(Head(focus), t) ELSE t)

\* fraction of node k of n along its axis
NodeFrac(focus, axis, k, n) == ApplyFocus(focus, axis, (k * FracDen) \div (n - 1))

\* ---------------------------------------------------------------- solver
\* coordinate c (1 = x, 2 = y) of the point at fraction t of a path, every
\* segment of the path taking an equal share of the fraction
PathPoint(path, t, c) ==
    LET m   == Len(path) - 1
        p   == t * m
        seg == Min(p \div FracDen, m - 1)
        loc == p - seg * FracDen
        A   == path[seg + 1][c]
        B   == path[seg + 2][c]
    IN  A + ((B - A) * loc) \div FracDen

\* the perimeter node (i, j): the boundary, honouring the corners; paths are
\* the four edges and fx, fy the focused fractions of the columns and rows
PerimeterNode(paths, fx, fy, ny, nx, i, j, c) ==
    IF i = 0 THEN PathPoint(paths[1], fx[j], c)
    ELSE IF j = nx - 1 THEN PathPoint(paths[2], fy[i], c)
    ELSE IF i = ny - 1 THEN PathPoint(paths[3], FracDen - fx[j], c)
    ELSE PathPoint(paths[4], FracDen - fy[i], c)

IsInterior(ny, nx, i, j) == 0 < i /\ i < ny - 1 /\ 0 < j /\ j < nx - 1

\* The initial mesh: the boundary on the perimeter, and every interior node
\* between the two ends of its row at the focused fraction of its column.
\* (The merge with the empty function makes TLC compute the mesh once, as an
\* array, rather than anew at every read; the same in RelaxRound.)
InitialMesh(paths, fx, fy, ny, nx, c) ==
    [ij \in Idx(<<ny, nx>>) |->
        IF IsInterior(ny, nx, ij[1], ij[2])
        THEN LET L == PerimeterNode(paths, fx, fy, ny, nx, ij[1], 0, c)
                 R == PerimeterNode(paths, fx, fy, ny, nx, ij[1], nx - 1, c)
             IN  L + ((R - L) * fx[ij[2]]) \div FracDen
        ELSE PerimeterNode(paths, fx, fy, ny, nx, ij[1], ij[2], c)]
    @@ [ij \in {} |-> 0]

\* one round: every interior node moves to the mean of its four neighbours,
\* all from the values of the round before; the perimeter stays
RelaxRound(ny, nx, m) ==
    [ij \in Idx(<<ny, nx>>) |->
        IF IsInterior(ny, nx, ij[1], ij[2])
        THEN (m[<<ij[1] - 1, ij[2]>>] + m[<<ij[1] + 1, ij[2]>>]
              + m[<<ij[1], ij[2] - 1>>] + m[<<ij[1], ij[2] + 1>>]) \div 4
        ELSE m[ij]]
    @@ [ij \in {} |-> 0]

\* the largest update of a node in a round
MaxUpdate(ny, nx, old, new) ==
    SetMax({Abs(new[ij] - old[ij]) : ij \in Idx(<<ny, nx>>)})

\* Iterate with the budget tested one round late
RECURSIVE IterateOverrun(_, _, _, _, _, _, _)
IterateOverrun(ny, nx, mx, my, deltas, nnodes, precision) ==
    IF Len(deltas) > nnodes
    THEN [mx |-> mx, my |-> my, deltas |-> deltas, converged |-> FALSE]
    ELSE LET nmx   == RelaxRound(ny, nx, mx)
             nmy   == RelaxRound(ny, nx, my)
             delta == Max(MaxUpdate(ny, nx, mx, nmx), MaxUpdate(ny, nx, my, nmy))
         IN  IF delta < precision
             THEN [mx |-> nmx, my |-> nmy, deltas |-> Append(deltas, delta),
                   converged |-> TRUE]
             ELSE IterateOverrun(ny, nx, nmx, nmy, Append(deltas, delta), nnodes,
                                 precision)

\* Rounds are run until the largest update falls below precision or nnodes
\* rounds are used up; deltas lists the largest update of every round run.
RECURSIVE Iterate(_, _, _, _, _, _, _)
Iterate(ny, nx, mx, my, deltas, nnodes, precision) ==
    IF Len(deltas) >= nnodes
    THEN [mx |-> mx, my |-> my, deltas |-> deltas, converged |-> FALSE]
    ELSE LET nmx   == RelaxRound(ny, nx, mx)
             nmy   == RelaxRound(ny, nx, my)
             delta == Max(MaxUpdate(ny, nx, mx, nmx), MaxUpdate(ny, nx, my, nmy))
         IN  IF delta < precision
             THEN [mx |-> nmx, my |-> nmy, deltas |-> Append(deltas, delta),
                   converged |-> TRUE]
             ELSE Iterate(ny, nx, nmx, nmy, Append(deltas, delta), nnodes, precision)

\* The solve: a function of the boundary, the shape, the focus and the
\* tunables alone.
Solve(bry, ul_idx, ny, nx, focus, nnodes, precision) ==
    LET paths == [e \in 1 .. 4 |-> EdgePath(bry, ul_idx, e)]
        fx    == [j \in 0 .. nx - 1 |-> NodeFrac(focus, "x", j, nx)]
        fy    == [i \in 0 .. ny - 1 |-> NodeFrac(focus, "y", i, ny)]
        r     == Iterate(ny, nx,
                         InitialMesh(paths, fx, fy, ny, nx, 1),
                         InitialMesh(paths, fx, fy, ny, nx, 2),
                         <<>>, nnodes, precision)
    IN  [x |-> MkArray(<<ny, nx>>, LAMBDA i, j : Unit * r.mx[<<i, j>>]),
         y |-> MkArray(<<ny, nx>>, LAMBDA i, j : Unit * r.my[<<i, j>>]),
         rounds |-> Len(r.deltas), deltas |-> r.deltas, converged |-> r.converged]

\* ---------------------------------------------------- inputs of the tests
\* tests/test_grid.py, boundary_planar(), in hundredths
boundary_planar ==
    [x |-> <<0, 100, 200, 100, 0>>,
     y |-> <<0, 0, 50, 100, 100>>,
     beta |-> <<1, 1, 0, 1, 1>>]

\* tests/test_grid.py, simple_grid(): x, y, beta
boundary_simple ==
    [x |-> <<50, 200, 200, 350, 350, 200, 200, 50, 50>>,
     y |-> <<50, 50, 175, 175, 225, 225, 350, 350, 50>>,
     beta |-> <<1, 1, -1, 1, 1, -1, 1, 1, 0>>]

\* tests/test_grid.py, make_focus(): position, axis, factor and extent of
\* every add_focus call, in hundredths
make_focus ==
    <<[pos |-> 50, axis |-> "x", factor |-> 200, extent |-> 300],
      [pos |-> 75, axis |-> "y", factor |-> 50, extent |-> 200]>>

\* the focus of test_gridgen_to_from_spec
spec_focus ==
    <<[pos |-> 50, axis |-> "y", factor |-> 500, extent |-> 25],
      [pos |-> 50, axis |-> "x", factor |-> 500, extent |-> 25]>>

\* focus=None
NoFocus == <<>>

\* tests/test_grid.py, options(): the tunables a grid is built with.
\* precision is one unit of the fixed point, the smallest update there is.
options ==
    [ul_idx |-> 0, nnodes |-> 14, precision |-> 1, nppe |-> 3, newton |-> TRUE,
     thin |-> TRUE, checksimplepoly |-> TRUE, verbose |-> FALSE]

\* test_mask_poylgon: island, in the fixed-point unit
island ==
    <<<<50 * Unit, 100 * Unit>>, <<100 * Unit, 100 * Unit>>,
      <<100 * Unit, 50 * Unit>>, <<50 * Unit, 50 * Unit>>>>

\* ------------------------------------------------- inputs of the model
\* boundaries offered to the constructor: those of the tests, and
\* boundary_planar with beta summing to 3 and to 5
Boundaries ==
    {boundary_planar, boundary_simple,
     [boundary_planar EXCEPT !.beta = <<1, 1, 0, 1, 0>>],
     [boundary_planar EXCEPT !.beta = <<1, 1, 1, 1, 1>>]}

Dims == 2 .. MaxDim

Focuses == {NoFocus, make_focus}

\* the tunables of the tests, and an iteration budget of a single round
Tunables == {options, [options EXCEPT !.nnodes = 1]}

\* polygons offered to mask_polygon: the island of the tests, and the strip
\* 0 <= x <= 2, 0 <= y <= 0.25
Polygons ==
    [island |-> island,
     strip |-> <<<<0, 0>>, <<200 * Unit, 0>>, <<200 * Unit, 25 * Unit>>,
                 <<0, 25 * Unit>>>>]

\* ------------------------------------------------------------- Gridgen
NoGrid == [status |-> "None"]

\* A grid object: its inputs, its arrays, and what the last solve reported.
\* Kept beside them, for the statements about it: the inputs of the last solve
\* (solved), the polygons masked since (applied), and whether generate_grid
\* has solved it with inputs other than those of the solve before
\* (regenerated).
GridRecord(bry, shape, focus, opts, sol) ==
    [status |-> "Solved", bry |-> bry, ny |-> shape[1], nx |-> shape[2],
     focus |-> focus, opts |-> opts,
     solved |-> [ny |-> shape[1], nx |-> shape[2], focus |-> focus],
     rounds |-> sol.rounds, deltas |-> sol.deltas, converged |-> sol.converged,
     applied |-> {}, regenerated |-> FALSE]
    @@ CGrid(sol.x, sol.y)

\* the grid of a boundary, a shape, a focus and tunables: solve, then build
\* every array from the solved vertices
Build(bry, shape, focus, opts) ==
    GridRecord(bry, shape, focus, opts,
               Solve(bry, opts.ul_idx, shape[1], shape[2], focus,
                     opts.nnodes, opts.precision))

\* The inputs the model offers, and their grids, each solved once.
OfferedInputs ==
    [bry : {b \in Boundaries : BetaSumOk(b.beta)}, shape : Dims \X Dims,
     focus : Focuses, opts : Tunables]

OfferedGrids ==
    [in \in OfferedInputs |-> Build(in.bry, in.shape, in.focus, in.opts)]
    @@ [in \in {} |-> NoGrid]

SolveAndBuild(bry, shape, focus, opts) ==
    LET in == [bry |-> bry, shape |-> shape, focus |-> focus, opts |-> opts]
    IN  IF in \in OfferedInputs THEN OfferedGrids[in]
        ELSE Build(bry, shape, focus, opts)

\* the inputs have the values the last solve used
Fresh(g) == g.solved = [ny |-> g.ny, nx |-> g.nx, focus |-> g.focus]

\* generate that solves again only when the shape has changed
generate_on_new_shape(g) ==
    IF <<g.ny, g.nx>> = <<g.solved.ny, g.solved.nx>>
    THEN [g EXCEPT !.solved.focus = g.focus,
                   !.regenerated = g.regenerated \/ ~Fresh(g)]
    ELSE [SolveAndBuild(g.bry, <<g.ny, g.nx>>, g.focus, g.opts)
             EXCEPT !.regenerated = TRUE]

\* generate that rebuilds x, y, psi and rho and leaves u and v as they were
generate_keeping_faces(g) ==
    [SolveAndBuild(g.bry, <<g.ny, g.nx>>, g.focus, g.opts)
        EXCEPT !.regenerated = g.regenerated \/ ~Fresh(g),
               !.x_u = g.x_u, !.y_u = g.y_u, !.x_v = g.x_v, !.y_v = g.y_v]

\* Gridgen.generate_grid(): solve with the current inputs and rebuild every
\* array from the solved vertices
generate(g) ==
    [SolveAndBuild(g.bry, <<g.ny, g.nx>>, g.focus, g.opts)
        EXCEPT !.regenerated = g.regenerated \/ ~Fresh(g)]

\* Gridgen(x, y, beta, shape, **opts): beta is checked first; a boundary that
\* passes is solved at once (autogen)
Gridgen(bry, shape, focus, opts) ==
    IF ~BetaSumOk(bry.beta)
    THEN [status |-> "Failed", error |-> "GeometryError::BetaSumInvalid",
          bry |-> bry]
    ELSE SolveAndBuild(bry, shape, focus, opts)

HasGrid(g) == g.status = "Solved"

\* ------------------------------------------------------------ SpecCodec
\* json.dump writes a number as its decimal text and json.load reads it back
DigitChars == <<"0", "1", "2", "3", "4", "5", "6", "7", "8", "9">>

RECURSIVE Digits(_)
Digits(n) ==
    IF n < 10 THEN <<DigitChars[n + 1]>>
    ELSE Append(Digits(n \div 10), DigitChars[(n % 10) + 1])

DecText(n) == IF n < 0 THEN <<"-">> \o Digits(-n) ELSE Digits(n)

DigitVal(c) == CHOOSE d \in 0 .. 9 : DigitChars[d + 1] = c

RECURSIVE ParseNat(_)
ParseNat(t) ==
    IF Len(t) = 0 THEN 0
    ELSE 10 * ParseNat(SubSeq(t, 1, Len(t) - 1)) + DigitVal(t[Len(t)])

ParseDec(t) == IF Head(t) = "-" THEN -ParseNat(Tail(t)) ELSE ParseNat(t)

BoolText(b) == IF b THEN "true" ELSE "false"

NumList(s) == [k \in 1 .. Len(s) |-> DecText(s[k])]

ParseList(s) == [k \in 1 .. Len(s) |-> ParseDec(s[k])]

\* to_spec that leaves the focus out
to_spec_without_focus(g) ==
    [xbry |-> g.bry.x, ybry |-> g.bry.y, beta |-> g.bry.beta,
     shape |-> <<g.ny, g.nx>>, ul_idx |-> g.opts.ul_idx, focus |-> NoFocus,
     nnodes |-> g.opts.nnodes, precision |-> g.opts.precision,
     nppe |-> g.opts.nppe, newton |-> g.opts.newton, thin |-> g.opts.thin,
     checksimplepoly |-> g.opts.checksimplepoly, verbose |-> g.opts.verbose]

\* Gridgen.to_spec(): the inputs of the grid as they are now, never its arrays
to_spec(g) ==
    [xbry |-> g.bry.x, ybry |-> g.bry.y, beta |-> g.bry.beta,
     shape |-> <<g.ny, g.nx>>, ul_idx |-> g.opts.ul_idx, focus |-> g.focus,
     nnodes |-> g.opts.nnodes, precision |-> g.opts.precision,
     nppe |-> g.opts.nppe, newton |-> g.opts.newton, thin |-> g.opts.thin,
     checksimplepoly |-> g.opts.checksimplepoly, verbose |-> g.opts.verbose]

\* json.dump(spec, file): the text of every value
json_dump(s) ==
    [xbry |-> NumList(s.xbry), ybry |-> NumList(s.ybry), beta |-> NumList(s.beta),
     shape |-> NumList(s.shape), ul_idx |-> DecText(s.ul_idx),
     focus |-> [k \in 1 .. Len(s.focus) |->
                   [pos |-> DecText(s.focus[k].pos), axis |-> s.focus[k].axis,
                    factor |-> DecText(s.focus[k].factor),
                    extent |-> DecText(s.focus[k].extent)]],
     nnodes |-> DecText(s.nnodes), precision |-> DecText(s.precision),
     nppe |-> DecText(s.nppe), newton |-> BoolText(s.newton),
     thin |-> BoolText(s.thin), checksimplepoly |-> BoolText(s.checksimplepoly),
     verbose |-> BoolText(s.verbose)]

\* json.load(file)
json_load(t) ==
    [xbry |-> ParseList(t.xbry), ybry |-> ParseList(t.ybry),
     beta |-> ParseList(t.beta), shape |-> ParseList(t.shape),
     ul_idx |-> ParseDec(t.ul_idx),
     focus |-> [k \in 1 .. Len(t.focus) |->
                   [pos |-> ParseDec(t.focus[k].pos), axis |-> t.focus[k].axis,
                    factor |-> ParseDec(t.focus[k].factor),
                    extent |-> ParseDec(t.focus[k].extent)]],
     nnodes |-> ParseDec(t.nnodes), precision |-> ParseDec(t.precision),
     nppe |-> ParseDec(t.nppe), newton |-> (t.newton = "true"),
     thin |-> (t.thin = "true"), checksimplepoly |-> (t.checksimplepoly = "true"),
     verbose |-> (t.verbose = "true")]

\* Gridgen.from_spec(spec): a new grid built, and solved, from the inputs
from_spec(s) ==
    Gridgen([x |-> s.xbry, y |-> s.ybry, beta |-> s.beta], s.shape, s.focus,
            [ul_idx |-> s.ul_idx, nnodes |-> s.nnodes, precision |-> s.precision,
             nppe |-> s.nppe, newton |-> s.newton, thin |-> s.thin,
             checksimplepoly |-> s.checksimplepoly, verbose |-> s.verbose])

known_x_basic ==
    <<
       <<100, 112, 200, 112, 100>>,
       <<96, 103, 117, 103, 96>>,
       <<87, 91, 96, 91, 87>>,
       <<77, 78, 80, 78, 77>>,
       <<65, 65, 66, 65, 65>>,
       <<52, 52, 53, 52, 52>>,
       <<39, 39, 39, 39, 39>>,
       <<26, 26, 26, 26, 26>>,
       <<13, 13, 13, 13, 13>>,
       <<0, 0, 0, 0, 0>>
    >>

known_y_basic ==
    <<
       <<0, 6, 50, 94, 100>>,
       <<0, 16, 50, 84, 100>>,
       <<0, 21, 50, 79, 100>>,
       <<0, 23, 50, 77, 100>>,
       <<0, 24, 50, 76, 100>>,
       <<0, 25, 50, 75, 100>>,
       <<0, 25, 50, 75, 100>>,
       <<0, 25, 50, 75, 100>>,
       <<0, 25, 50, 75, 100>>,
       <<0, 25, 50, 75, 100>>
    >>

known_x_psi_basic ==
    <<
       <<103, 117, 103>>,
       <<91, 96, 91>>,
       <<78, 80, 78>>,
       <<65, 66, 65>>,
       <<52, 53, 52>>,
       <<39, 39, 39>>,
       <<26, 26, 26>>,
       <<13, 13, 13>>
    >>

known_y_psi_basic ==
    <<
       <<16, 50, 84>>,
       <<21, 50, 79>>,
       <<23, 50, 77>>,
       <<24, 50, 76>>,
       <<25, 50, 75>>,
       <<25, 50, 75>>,
       <<25, 50, 75>>,
       <<25, 50, 75>>
    >>

known_x_rho_basic ==
    <<
       <<103, 133, 133, 103>>,
       <<94, 102, 102, 94>>,
       <<83, 87, 87, 83>>,
       <<71, 73, 73, 71>>,
       <<59, 59, 59, 59>>,
       <<46, 46, 46, 46>>,
       <<33, 33, 33, 33>>,
       <<20, 20, 20, 20>>,
       <<7, 7, 7, 7>>
    >>

known_y_rho_basic ==
    <<
       <<5, 30, 70, 95>>,
       <<9, 34, 66, 91>>,
       <<11, 36, 64, 89>>,
       <<12, 37, 63, 88>>,
       <<12, 37, 63, 88>>,
       <<12, 37, 63, 88>>,
       <<12, 37, 63, 88>>,
       <<12, 37, 63, 88>>,
       <<12, 37, 63, 88>>
    >>

known_x_u_basic ==
    <<
       <<108, 158, 108>>,
       <<97, 106, 97>>,
       <<85, 88, 85>>,
       <<72, 73, 72>>,
       <<59, 59, 59>>,
       <<46, 46, 46>>,
       <<33, 33, 33>>,
       <<20, 20, 20>>,
       <<7, 7, 7>>
    >>

known_y_u_basic ==
    <<
       <<11, 50, 89>>,
       <<18, 50, 82>>,
       <<22, 50, 78>>,
       <<24, 50, 76>>,
       <<24, 50, 76>>,
       <<25, 50, 75>>,
       <<25, 50, 75>>,
       <<25, 50, 75>>,
       <<25, 50, 75>>
    >>

known_x_v_basic ==
    <<
       <<100, 110, 110, 100>>,
       <<89, 94, 94, 89>>,
       <<78, 79, 79, 78>>,
       <<65, 66, 66, 65>>,
       <<52, 53, 53, 52>>,
       <<39, 39, 39, 39>>,
       <<26, 26, 26, 26>>,
       <<13, 13, 13, 13>>
    >>

known_y_v_basic ==
    <<
       <<8, 33, 67, 92>>,
       <<10, 35, 65, 90>>,
       <<12, 37, 63, 88>>,
       <<12, 37, 63, 88>>,
       <<12, 37, 63, 88>>,
       <<12, 37, 63, 88>>,
       <<12, 37, 63, 88>>,
       <<12, 37, 63, 88>>
    >>

known_ortho_basic ==
    <<
       <<3559, 3231, -3231, -3559>>,
       <<1044, 651, -651, -1044>>,
       <<369, 292, -292, -369>>,
       <<149, 134, -134, -149>>,
       <<63, 60, -60, -63>>,
       <<27, 27, -27, -27>>,
       <<12, 12, -12, -12>>,
       <<5, 5, -5, -5>>,
       <<1, 1, -1, -1>>
    >>

known_x_focused ==
    <<
       <<100, 104, 112, 127, 200, 127, 112, 104, 100>>,
       <<95, 97, 102, 110, 115, 110, 102, 97, 95>>,
       <<86, 87, 89, 92, 93, 92, 89, 87, 86>>,
       <<73, 74, 75, 76, 76, 76, 75, 74, 73>>,
       <<59, 59, 60, 60, 60, 60, 60, 59, 59>>,
       <<45, 45, 45, 45, 45, 45, 45, 45, 45>>,
       <<30, 30, 30, 30, 30, 30, 30, 30, 30>>,
       <<15, 15, 15, 15, 15, 15, 15, 15, 15>>,
       <<0, 0, 0, 0, 0, 0, 0, 0, 0>>
    >>

known_y_focused ==
    <<
       <<0, 2, 6, 14, 50, 86, 94, 98, 100>>,
       <<0, 7, 16, 30, 50, 70, 84, 93, 100>>,
       <<0, 10, 21, 35, 50, 65, 79, 90, 100>>,
       <<0, 12, 24, 37, 50, 63, 76, 88, 100>>,
       <<0, 12, 25, 37, 50, 63, 75, 88, 100>>,
       <<0, 12, 25, 37, 50, 63, 75, 88, 100>>,
       <<0, 13, 25, 38, 50, 62, 75, 87, 100>>,
       <<0, 13, 25, 38, 50, 62, 75, 87, 100>>,
       <<0, 13, 25, 38, 50, 62, 75, 87, 100>>
    >>

known_x_psi_focused ==
    <<
       <<97, 102, 110, 115, 110, 102, 97>>,
       <<87, 89, 92, 93, 92, 89, 87>>,
       <<74, 75, 76, 76, 76, 75, 74>>,
       <<59, 60, 60, 60, 60, 60, 59>>,
       <<45, 45, 45, 45, 45, 45, 45>>,
       <<30, 30, 30, 30, 30, 30, 30>>,
       <<15, 15, 15, 15, 15, 15, 15>>
    >>

known_y_psi_focused ==
    <<
       <<7, 16, 30, 50, 70, 84, 93>>,
       <<10, 21, 35, 50, 65, 79, 90>>,
       <<12, 24, 37, 50, 63, 76, 88>>,
       <<12, 25, 37, 50, 63, 75, 88>>,
       <<12, 25, 37, 50, 63, 75, 88>>,
       <<13, 25, 38, 50, 62, 75, 87>>,
       <<13, 25, 38, 50, 62, 75, 87>>
    >>

known_x_rho_focused ==
    <<
       <<99, 104, 113, 138, 138, 113, 104, 99>>,
       <<91, 94, 98, 102, 102, 98, 94, 91>>,
       <<80, 81, 83, 84, 84, 83, 81, 80>>,
       <<66, 67, 68, 68, 68, 68, 67, 66>>,
       <<52, 52, 52, 53, 53, 52, 52, 52>>,
       <<37, 37, 37, 37, 37, 37, 37, 37>>,
       <<22, 22, 22, 22, 22, 22, 22, 22>>,
       <<7, 7, 7, 7, 7, 7, 7, 7>>
    >>

known_y_rho_focused ==
    <<
       <<2, 8, 16, 36, 64, 84, 92, 98>>,
       <<4, 14, 26, 41, 59, 74, 86, 96>>,
       <<5, 17, 29, 43, 57, 71, 83, 95>>,
       <<6, 18, 30, 43, 57, 70, 82, 94>>,
       <<6, 19, 31, 44, 56, 69, 81, 94>>,
       <<6, 19, 31, 44, 56, 69, 81, 94>>,
       <<6, 19, 31, 44, 56, 69, 81, 94>>,
       <<6, 19, 31, 44, 56, 69, 81, 94>>
    >>

known_x_u_focused ==
    <<
       <<100, 107, 119, 157, 119, 107, 100>>,
       <<92, 96, 101, 104, 101, 96, 92>>,
       <<80, 82, 84, 85, 84, 82, 80>>,
       <<66, 67, 68, 68, 68, 67, 66>>,
       <<52, 52, 53, 53, 53, 52, 52>>,
       <<37, 37, 37, 38, 37, 37, 37>>,
       <<22, 22, 22, 22, 22, 22, 22>>,
       <<7, 7, 7, 7, 7, 7, 7>>
    >>

known_y_u_focused ==
    <<
       <<4, 11, 22, 50, 78, 89, 96>>,
       <<9, 19, 32, 50, 68, 81, 91>>,
       <<11, 23, 36, 50, 64, 77, 89>>,
       <<12, 24, 37, 50, 63, 76, 88>>,
       <<12, 25, 37, 50, 63, 75, 88>>,
       <<13, 25, 37, 50, 63, 75, 87>>,
       <<13, 25, 38, 50, 62, 75, 87>>,
       <<13, 25, 38, 50, 62, 75, 87>>
    >>

known_x_v_focused ==
    <<
       <<96, 100, 106, 112, 112, 106, 100, 96>>,
       <<86, 88, 90, 92, 92, 90, 88, 86>>,
       <<73, 74, 75, 76, 76, 75, 74, 73>>,
       <<59, 60, 60, 60, 60, 60, 60, 59>>,
       <<45, 45, 45, 45, 45, 45, 45, 45>>,
       <<30, 30, 30, 30, 30, 30, 30, 30>>,
       <<15, 15, 15, 15, 15, 15, 15, 15>>
    >>

known_y_v_focused ==
    <<
       <<4, 12, 23, 40, 60, 77, 88, 96>>,
       <<5, 16, 28, 42, 58, 72, 84, 95>>,
       <<6, 18, 30, 43, 57, 70, 82, 94>>,
       <<6, 18, 31, 44, 56, 69, 82, 94>>,
       <<6, 19, 31, 44, 56, 69, 81, 94>>,
       <<6, 19, 31, 44, 56, 69, 81, 94>>,
       <<6, 19, 31, 44, 56, 69, 81, 94>>
    >>

known_ortho_focused ==
    <<
       <<3234, 493, 320, 3006, -3006, -320, -493, -3234>>,
       <<345, 417, 321, 192, -192, -321, -417, -345>>,
       <<87, 175, 155, 64, -64, -155, -175, -87>>,
       <<30, 69, 65, 26, -26, -65, -69, -30>>,
       <<12, 27, 26, 11, -11, -26, -27, -12>>,
       <<4, 11, 10, 4, -4, -10, -11, -4>>,
       <<2, 4, 4, 2, -2, -4, -4, -2>>,
       <<0, 1, 1, 0, 0, -1, -1, 0>>
    >>

\* ------------------------------------------------------- the test suite
\* The tables of tests/test_grid.py are in hundredths (known_ortho in
\* ten-thousandths); the fixture with a projection is left out, its
\* coordinates need the projection and more than 32 bits.
known_mask_rho ==
    <<
       <<1, 1, 1, 1>>,
       <<1, 1, 1, 0>>,
       <<1, 1, 0, 0>>,
       <<1, 1, 0, 0>>,
       <<1, 1, 0, 0>>,
       <<1, 1, 1, 1>>,
       <<1, 1, 1, 1>>,
       <<1, 1, 1, 1>>,
       <<1, 1, 1, 1>>
    >>

known_xy_basic ==
    [vert |-> <<known_x_basic, known_y_basic>>,
     psi |-> <<known_x_psi_basic, known_y_psi_basic>>,
     rho |-> <<known_x_rho_basic, known_y_rho_basic>>,
     u |-> <<known_x_u_basic, known_y_u_basic>>,
     v |-> <<known_x_v_basic, known_y_v_basic>>,
     ortho |-> known_ortho_basic]

known_xy_focused ==
    [vert |-> <<known_x_focused, known_y_focused>>,
     psi |-> <<known_x_psi_focused, known_y_psi_focused>>,
     rho |-> <<known_x_rho_focused, known_y_rho_focused>>,
     u |-> <<known_x_u_focused, known_y_u_focused>>,
     v |-> <<known_x_v_focused, known_y_v_focused>>,
     ortho |-> known_ortho_focused]

\* the params of the fixture grid_and_knowns: shape, focus, and knowns
FixtureParams ==
    [basic |-> [shape |-> <<10, 5>>, focus |-> NoFocus, known |-> known_xy_basic],
     focused |-> [shape |-> <<9, 9>>, focus |-> make_focus, known |-> known_xy_focused],
     updated |-> [shape |-> <<10, 5>>, focus |-> NoFocus, known |-> known_xy_basic]]

\* test_shape: known_shapes
known_shapes == [basic |-> <<10, 5>>, focused |-> <<9, 9>>, updated |-> <<10, 5>>]

\* The grid a fixture hands to a test.  Its solved vertices are the ones
\* test_xy accepts; everything else is built from them as for any grid.
grid_and_knowns(name) ==
    LET p == FixtureParams[name]
    IN  GridRecord(boundary_planar, p.shape, p.focus, options,
                   [x |-> FromRows(p.known.vert[1], Unit),
                    y |-> FromRows(p.known.vert[2], Unit),
                    rounds |-> 0, deltas |-> <<>>, converged |-> TRUE])

\* numpy.testing.assert_array_almost_equal(actual, desired, decimal=2): equal
\* shapes, and every abs(desired - actual) < 1.5 * 10**-2
assert_array_almost_equal(actual, desired) ==
    /\ actual.shape = desired.shape
    /\ \A ij \in Idx(actual.shape) :
           2 * Abs(At(desired, ij[1], ij[2]) - At(actual, ij[1], ij[2])) < 3 * Unit

\* the same with the default decimal=6, on arrays of zeros and ones
assert_array_equal(actual, desired) ==
    /\ actual.shape = desired.shape
    /\ \A ij \in Idx(actual.shape) :
           At(desired, ij[1], ij[2]) = At(actual, ij[1], ij[2])

Outcome(passed) == IF passed THEN "pass" ELSE "fail"

\* getattr(grid, 'x_' + attr_suffix), getattr(grid, 'y_' + attr_suffix)
GetAttr(g, attr_suffix) ==
    IF attr_suffix = "vert" THEN <<g.x, g.y>>
    ELSE IF attr_suffix = "psi" THEN <<g.x_psi, g.y_psi>>
    ELSE IF attr_suffix = "rho" THEN <<g.x_rho, g.y_rho>>
    ELSE IF attr_suffix = "u" THEN <<g.x_u, g.y_u>>
    ELSE <<g.x_v, g.y_v>>

\* the outcome of test_other_arrays[attr_suffix] on grid g with knowns known
other_arrays_outcome(g, known, attr_suffix) ==
    Outcome(/\ assert_array_almost_equal(GetAttr(g, attr_suffix)[1],
                                         FromRows(known[attr_suffix][1], Unit))
            /\ assert_array_almost_equal(GetAttr(g, attr_suffix)[2],
                                         FromRows(known[attr_suffix][2], Unit)))

\* test_orthogonality: the fixed point holds no angles, so of the comparison
\* only the shapes of grid.orthogonality and known_ortho are decided
orthogonality_outcome(g, known) ==
    Outcome(g.orthogonality.shape = FromRows(known.ortho, 1).shape)

\* test_mask_poylgon, on the fixture named basic
mask_polygon_outcome(g) ==
    Outcome(assert_array_equal(MaskOf(g, island), FromRows(known_mask_rho, 1)))

AttrSuffixes == {"vert", "psi", "rho", "u", "v"}

TestNames == AttrSuffixes \cup {"shape", "xy", "orthogonality", "mask_polygon"}

\* ------------------------------------------------------------- csa.py
\* A value handed to CSA is a numpy array (its shape, and its elements in
\* flat order) or a plain Python list.  An operation that can raise returns a
\* record whose field raised names the exception ("none" when it returns).
NdArray(shape, flat) == [kind |-> "ndarray", shape |-> shape, flat |-> flat]

PyList(flat) == [kind |-> "list", flat |-> flat]

Raise(e) == [raised |-> e]

Return(v) == [raised |-> "none", value |-> v]

\* numpy.asarray(v)
asarray(v) == IF v.kind = "ndarray" THEN v ELSE NdArray(<<Len(v.flat)>>, v.flat)

\* v.size: an attribute of a numpy array, not of a list
GetSize(v) == IF v.kind = "ndarray" THEN Return(Len(v.flat)) ELSE Raise("AttributeError")

\* v.flat: an attribute of a numpy array, not of a list
GetFlat(v) == IF v.kind = "ndarray" THEN Return(v.flat) ELSE Raise("AttributeError")

\* (ctypes.c_double * n)(*vals): too many initialisers raise IndexError, too
\* few leave the rest of the array zero
c_double_array(n, vals) ==
    IF Len(vals) > n THEN Raise("IndexError")
    ELSE Return([i \in 1 .. n |-> IF i <= Len(vals) THEN vals[i] ELSE 0])

\* what csa_approximatepoints2 gives for one output point: a number, or NaN
Num(v) == [nan |-> FALSE, v |-> v]

NaN == [nan |-> TRUE, v |-> 0]

isnan(z) == z.nan

\* numpy.ma.masked_where(condition, a)
masked_where(condition, a) ==
    [kind |-> "masked", shape |-> a.shape, data |-> a.flat, mask |-> condition]

\* CSA._libcsa_paths: (name, directory) of the candidate libraries
libcsa_paths ==
    <<<<"libcsa.so", "sys.prefix/lib">>, <<"libcsa", "sys.prefix/lib">>,
      <<"libcsa.so", "/usr/local/lib">>, <<"libcsa", "/usr/local/lib">>>>

\* The for loop of the class body from candidate k on; loadable is the set of
\* candidates that numpy.ctypeslib.load_library can load, tried the candidates
\* tried so far.  The body of the try is "load, then break": it ends by the
\* break or by OSError, never by running to its end, and the else of a try
\* runs only when the body runs to its end.
RECURSIVE LoadLoop(_, _, _)
LoadLoop(k, loadable, tried) ==
    IF k > Len(libcsa_paths)
    THEN [raised |-> "none", bound |-> FALSE, tried |-> tried]
    ELSE LET body == IF k \in loadable THEN "break" ELSE "OSError"
         IN  CASE body = "break" ->
                      [raised |-> "none", bound |-> TRUE, lib |-> k,
                       tried |-> Append(tried, k)]
               [] body = "OSError" -> LoadLoop(k + 1, loadable, Append(tried, k))
               [] OTHER ->
                      [raised |-> "OSError: Failed to load the CSA library.",
                       bound |-> FALSE, tried |-> Append(tried, k)]

\* The class body: the loop, then the statement that reads _csa, which
\* raises NameError when no candidate has bound it.
ClassCSA(loadable) ==
    LET r == LoadLoop(1, loadable, <<>>)
    IN  IF r.raised # "none"
        THEN [status |-> "failed", error |-> r.raised, tried |-> r.tried]
        ELSE IF ~r.bound
        THEN [status |-> "failed", error |-> "NameError", tried |-> r.tried]
        ELSE [status |-> "defined", lib |-> r.lib, tried |-> r.tried]

NoCSA == [status |-> "None"]

\* CSA.__init__(xin, yin, zin) with the default sigma and tunables.  The size
\* test reads the arguments xin and yin, not self.xin and self.yin; zin is
\* stored as it was given, without the setter.
CSA(xin, yin, zin) ==
    LET xs == GetSize(xin)
        ys == GetSize(yin)
    IN  IF xs.raised # "none" THEN [status |-> "Failed", error |-> xs.raised]
        ELSE IF ys.raised # "none" THEN [status |-> "Failed", error |-> ys.raised]
        ELSE IF xs.value # ys.value THEN [status |-> "Failed", error |-> "ValueError"]
        ELSE [status |-> "Made", xin |-> asarray(xin), yin |-> asarray(yin),
              zin |-> zin, sigma |-> "None",
              k |-> 140, nppc |-> 5, npmin |-> 3, npmax |-> 40]

\* the zin setter: the size of asarray(value) is tested, value itself is stored
zin_setter(self, value) ==
    IF Len(asarray(value).flat) # Len(self.xin.flat)
    THEN [raised |-> "ValueError", self |-> self]
    ELSE [raised |-> "none", self |-> [self EXCEPT !.zin = value]]

\* calculate_points without the line that gives zout the shape of xout
calculate_points_flat(self, xout0, yout0, ret) ==
    LET xout  == asarray(xout0)
        yout  == asarray(yout0)
        nin   == Len(self.xin.flat)
        nout  == Len(xout.flat)
        zflat == GetFlat(self.zin)
        zarg  == IF zflat.raised # "none" THEN zflat
                 ELSE c_double_array(nin, zflat.value)
        yarg  == c_double_array(nout, yout.flat)
    IN  IF zarg.raised # "none" THEN Raise(zarg.raised)
        ELSE IF yarg.raised # "none" THEN Raise(yarg.raised)
        ELSE [raised |-> "none",
              passed |-> [nin |-> nin, xin |-> self.xin.flat, yin |-> self.yin.flat,
                          zin |-> zarg.value, sigma |-> "NULL", nout |-> nout,
                          xout |-> xout.flat, yout |-> yarg.value,
                          npmin |-> self.npmin, npmax |-> self.npmax,
                          k |-> self.k, nppc |-> self.nppc],
              value |-> masked_where([i \in 1 .. nout |-> isnan(ret[i])],
                                     NdArray(<<nout>>, [i \in 1 .. nout |-> ret[i]]))]

\* CSA._calculate_points(xout, yout); ret is what csa_approximatepoints2
\* returns for the nout output points.  The arguments of the library call are
\* built left to right, so a zin that cannot be passed raises first.
calculate_points(self, xout0, yout0, ret) ==
    LET xout  == asarray(xout0)
        yout  == asarray(yout0)
        nin   == Len(self.xin.flat)
        nout  == Len(xout.flat)
        zflat == GetFlat(self.zin)
        zarg  == IF zflat.raised # "none" THEN zflat
                 ELSE c_double_array(nin, zflat.value)
        yarg  == c_double_array(nout, yout.flat)
    IN  IF zarg.raised # "none" THEN Raise(zarg.raised)
        ELSE IF yarg.raised # "none" THEN Raise(yarg.raised)
        ELSE [raised |-> "none",
              passed |-> [nin |-> nin, xin |-> self.xin.flat, yin |-> self.yin.flat,
                          zin |-> zarg.value, sigma |-> "NULL", nout |-> nout,
                          xout |-> xout.flat, yout |-> yarg.value,
                          npmin |-> self.npmin, npmax |-> self.npmax,
                          k |-> self.k, nppc |-> self.nppc],
              value |-> masked_where([i \in 1 .. nout |-> isnan(ret[i])],
                                     NdArray(xout.shape, [i \in 1 .. nout |-> ret[i]]))]

\* CSA.__call__(xout, yout)
call(self, xout, yout, ret) == calculate_points(self, asarray(xout), asarray(yout), ret)

\* ---- the inputs offered to CSA
PtCounts == 1 .. MaxPts

\* coordinates of n input points
CoordValues ==
    UNION {{NdArray(<<n>>, [i \in 1 .. n |-> i - 1]), PyList([i \in 1 .. n |-> i - 1])} :
           n \in PtCounts}

\* two sets of values at n input points
ZValues ==
    UNION {{NdArray(<<n>>, [i \in 1 .. n |-> 10 * i]), PyList([i \in 1 .. n |-> 10 * i]),
            NdArray(<<n>>, [i \in 1 .. n |-> 10 * i + 1])} : n \in PtCounts}

\* output coordinates: a row of n points, a 1-by-n array, a list
OutValues ==
    UNION {{NdArray(<<n>>, [i \in 1 .. n |-> i]), NdArray(<<1, n>>, [i \in 1 .. n |-> i])} :
           n \in PtCounts}
    \cup {PyList(<<1>>)}

\* the (xout, yout) offered to a call: yout as xout, yout the longest row
\* (longer than xout unless xout is as long), and a yout shorter than xout
OutPairs ==
    {<<o, o>> : o \in OutValues}
    \cup {<<o, NdArray(<<MaxPts>>, [i \in 1 .. MaxPts |-> i])>> : o \in OutValues}
    \cup {<<NdArray(<<MaxPts>>, [i \in 1 .. MaxPts |-> i]), PyList(<<1>>)>>}

\* what the library may return for a point
LibValues == {NaN, Num(7)}

\* before csa.py is imported: no class, no object.  Kept beside them, for the
\* statements about them: the last operation with its arguments and outcome
\* (last), and whether the stored zin was assigned through the setter (zset).
CSAStart ==
    [cls |-> [status |-> "undefined"], obj |-> NoCSA, last |-> [op |-> "none"],
     zset |-> FALSE]

\* ------------------------------------------------- the life of a grid
\* A run either builds a grid and uses it, or runs tests of the test suite on
\* the grid of one fixture, or defines the CSA class and uses a CSA object:
\* the grid and the CSA object share no state.
Init ==
    /\ grid = NoGrid
    /\ grid2 = NoGrid
    /\ fixture = "none"
    /\ results = [t \in TestNames |-> "notrun"]
    /\ csa = CSAStart

\* grid = pygridgen.Gridgen(x, y, beta, shape, **opts)
Construct ==
    /\ grid.status = "None"
    /\ csa = CSAStart
    /\ \E bry \in Boundaries, ny \in Dims, nx \in Dims, f \in Focuses, o \in Tunables :
           grid' = Gridgen(bry, <<ny, nx>>, f, o)
    /\ UNCHANGED <<grid2, fixture, results, csa>>

InUse == HasGrid(grid) /\ fixture = "none"

\* grid.focus = f
SetFocus ==
    /\ InUse
    /\ \E f \in Focuses : grid' = [grid EXCEPT !.focus = f]
    /\ grid2' = NoGrid
    /\ UNCHANGED <<fixture, results, csa>>

\* grid.ny = n solving again at once
SetNySolving ==
    /\ InUse
    /\ \E n \in Dims : grid' = generate([grid EXCEPT !.ny = n])
    /\ grid2' = NoGrid
    /\ UNCHANGED <<fixture, results, csa>>

\* grid.ny = n
SetNy ==
    /\ InUse
    /\ \E n \in Dims : grid' = [grid EXCEPT !.ny = n]
    /\ grid2' = NoGrid
    /\ UNCHANGED <<fixture, results, csa>>

\* grid.nx = n
SetNx ==
    /\ InUse
    /\ \E n \in Dims : grid' = [grid EXCEPT !.nx = n]
    /\ grid2' = NoGrid
    /\ UNCHANGED <<fixture, results, csa>>

\* grid.generate_grid()
GenerateGrid ==
    /\ InUse
    /\ grid' = generate(grid)
    /\ grid2' = NoGrid
    /\ UNCHANGED <<fixture, results, csa>>

\* grid.mask_polygon(polyverts)
MaskPolygon ==
    /\ InUse
    /\ \E p \in DOMAIN Polygons :
           grid' = [grid EXCEPT !.mask_rho = MaskOf(grid, Polygons[p]),
                                !.applied = @ \cup {p}]
    /\ grid2' = NoGrid
    /\ UNCHANGED <<fixture, results, csa>>

\* grid2 = Gridgen.from_spec(grid.to_spec()), the spec passed on as it is or
\* written to a JSON file and read back
RoundTrip ==
    /\ InUse
    /\ \E json \in BOOLEAN :
           grid2' = [json |-> json]
                    @@ from_spec(IF json THEN json_load(json_dump(to_spec(grid)))
                                 ELSE to_spec(grid))
    /\ UNCHANGED <<grid, fixture, results, csa>>

\* the fixture grid_and_knowns hands its grid to the tests
SetUpFixture ==
    /\ grid.status = "None"
    /\ csa = CSAStart
    /\ \E name \in DOMAIN FixtureParams :
           /\ fixture' = name
           /\ grid' = grid_and_knowns(name)
    /\ UNCHANGED <<grid2, results, csa>>

\* every test gets the fixture's grid anew, so a test leaves grid as it is
Record(t, outcome) ==
    /\ fixture # "none"
    /\ results[t] = "notrun"
    /\ results' = [results EXCEPT ![t] = outcome]
    /\ UNCHANGED <<grid, grid2, fixture, csa>>

test_shape ==
    Record("shape", Outcome(<<grid.ny, grid.nx>> = known_shapes[fixture]
                            /\ grid.x.shape = known_shapes[fixture]))

test_xy ==
    Record("xy", other_arrays_outcome(grid, FixtureParams[fixture].known, "vert"))

test_other_arrays ==
    \E a \in AttrSuffixes :
        Record(a, other_arrays_outcome(grid, FixtureParams[fixture].known, a))

test_orthogonality ==
    Record("orthogonality", orthogonality_outcome(grid, FixtureParams[fixture].known))

test_mask_poylgon ==
    Record("mask_polygon",
           IF fixture = "basic" THEN mask_polygon_outcome(grid) ELSE "pass")

\* the class statement of csa.py runs (the module is imported)
DefineCSA ==
    /\ grid.status = "None" /\ fixture = "none"
    /\ csa.cls.status = "undefined"
    /\ \E loadable \in SUBSET (1 .. Len(libcsa_paths)) :
           csa' = [csa EXCEPT !.cls = ClassCSA(loadable),
                              !.last = [op |-> "define", loadable |-> loadable]]
    /\ UNCHANGED <<grid, grid2, fixture, results>>

\* csa_interp = CSA(xin, yin, zin)
NewCSA ==
    /\ csa.cls.status = "defined"
    /\ csa.obj.status = "None"
    /\ \E xin \in CoordValues, yin \in CoordValues, zin \in ZValues :
           csa' = [csa EXCEPT !.obj = CSA(xin, yin, zin),
                              !.last = [op |-> "construct", xin |-> xin,
                                        yin |-> yin, zin |-> zin]]
    /\ UNCHANGED <<grid, grid2, fixture, results>>

\* csa_interp.zin = value
SetZin ==
    /\ csa.obj.status = "Made"
    /\ \E value \in ZValues :
           LET r == zin_setter(csa.obj, value)
           IN  csa' = [csa EXCEPT !.obj = r.self,
                                  !.last = [op |-> "setzin", value |-> value,
                                            raised |-> r.raised],
                                  !.zset = @ \/ r.raised = "none"]
    /\ UNCHANGED <<grid, grid2, fixture, results>>

\* zout = csa_interp(xout, yout); the library returns ret
Call ==
    /\ csa.obj.status = "Made"
    /\ \E p \in OutPairs :
           \E ret \in [1 .. Len(p[1].flat) -> LibValues] :
               csa' = [csa EXCEPT !.last = [op |-> "call", xout |-> p[1],
                                            yout |-> p[2], ret |-> ret,
                                            out |-> call(csa.obj, p[1], p[2], ret)]]
    /\ UNCHANGED <<grid, grid2, fixture, results>>

Next ==
    \/ Construct
    \/ SetFocus
    \/ SetNy
    \/ SetNx
    \/ GenerateGrid
    \/ MaskPolygon
    \/ RoundTrip
    \/ SetUpFixture
    \/ test_shape
    \/ test_xy
    \/ test_other_arrays
    \/ test_orthogonality
    \/ test_mask_poylgon
    \/ DefineCSA
    \/ NewCSA
    \/ SetZin
    \/ Call

Spec == Init /\ [][Next]_vars

\* ================================================================ claims
\* every array holds as many rows and columns as its shape says
WellFormed(A) ==
    /\ Len(A.data) = A.shape[1]
    /\ \A i \in 1 .. Len(A.data) : Len(A.data[i]) = A.shape[2]

\* the arrays but mask_rho
NonMaskArrays(g) == [a \in ArrayNames \ {"mask_rho"} |-> g[a]]

\* C1: in every state with a solved grid, whatever setters and generate_grid
\* calls came before, x and y have the shape (ny, nx) of the last solve, which
\* is (grid.ny, grid.nx) while no setter has changed them since, and psi, rho,
\* u, v have shapes (ny-2, nx-2), (ny-1, nx-1), (ny-1, nx-2), (ny-2, nx-1).
C1_Shapes ==
    HasGrid(grid) =>
        LET ny == grid.solved.ny
            nx == grid.solved.nx
        IN  /\ \A a \in ArrayNames : WellFormed(grid[a])
            /\ grid.x.shape = <<ny, nx>> /\ grid.y.shape = <<ny, nx>>
            /\ grid.x_psi.shape = <<ny - 2, nx - 2>>
            /\ grid.y_psi.shape = <<ny - 2, nx - 2>>
            /\ grid.x_rho.shape = <<ny - 1, nx - 1>>
            /\ grid.y_rho.shape = <<ny - 1, nx - 1>>
            /\ grid.x_u.shape = <<ny - 1, nx - 2>>
            /\ grid.y_u.shape = <<ny - 1, nx - 2>>
            /\ grid.x_v.shape = <<ny - 2, nx - 1>>
            /\ grid.y_v.shape = <<ny - 2, nx - 1>>
            /\ Fresh(grid) => grid.x.shape = <<grid.ny, grid.nx>>
            /\ results["shape"] # "fail"

\* a grid regenerated with a shape that is not square, and ny set since
C1_Witness ==
    /\ InUse
    /\ grid.regenerated
    /\ grid.solved.ny # grid.solved.nx
    /\ grid.ny # grid.solved.ny

\* the rule of rho and of psi on one field: X the vertices, R and P the arrays
RhoPsiRule(X, R, P) ==
    /\ \A i \in 0 .. X.shape[1] - 2, j \in 0 .. X.shape[2] - 2 :
           4 * At(R, i, j)
               = At(X, i, j) + At(X, i, j + 1) + At(X, i + 1, j) + At(X, i + 1, j + 1)
    /\ \A i \in 0 .. X.shape[1] - 3, j \in 0 .. X.shape[2] - 3 :
           At(P, i, j) = At(X, i + 1, j + 1)

\* C2: for every solved grid, rho[i,j] is the average of the four vertices
\* X[i,j], X[i,j+1], X[i+1,j], X[i+1,j+1] and psi[i,j] is X[i+1,j+1], for the x
\* and for the y field; the tables the tests accept for rho and psi agree.
C2_RhoPsi ==
    HasGrid(grid) =>
        /\ RhoPsiRule(grid.x, grid.x_rho, grid.x_psi)
        /\ RhoPsiRule(grid.y, grid.y_rho, grid.y_psi)
        /\ results["rho"] # "fail"
        /\ results["psi"] # "fail"

\* the tests of rho and psi have passed on the grid of the fixture basic
C2_Witness ==
    /\ fixture = "basic"
    /\ results["rho"] = "pass"
    /\ results["psi"] = "pass"
    /\ At(grid.x_rho, 0, 1) # At(grid.x, 0, 1)

\* the rule the specification gives for u and v on one field: mid-points of
\* neighbouring cell centres
FacesFromRho(R, U, V) ==
    /\ \A i \in 0 .. R.shape[1] - 1, j \in 0 .. R.shape[2] - 2 :
           2 * At(U, i, j) = At(R, i, j) + At(R, i, j + 1)
    /\ \A i \in 0 .. R.shape[1] - 2, j \in 0 .. R.shape[2] - 1 :
           2 * At(V, i, j) = At(R, i, j) + At(R, i + 1, j)

\* the rule of u and v on one field X: mid-points of the two vertices at the
\* ends of a cell edge
FacesFromVertices(X, U, V) ==
    /\ \A i \in 0 .. X.shape[1] - 2, j \in 0 .. X.shape[2] - 3 :
           2 * At(U, i, j) = At(X, i, j + 1) + At(X, i + 1, j + 1)
    /\ \A i \in 0 .. X.shape[1] - 3, j \in 0 .. X.shape[2] - 2 :
           2 * At(V, i, j) = At(X, i + 1, j) + At(X, i + 1, j + 1)

\* Two tables of the tests, each accepted to within 1.5 hundredths, can both
\* hold values that obey a two-point average when the tables themselves obey
\* it to within 3 hundredths.
Near(twice, sum) == Abs(twice - sum) < 2 * 3

KnownFacesFromRho(k, c) ==
    LET R == FromRows(k.rho[c], 1)
        U == FromRows(k.u[c], 1)
        V == FromRows(k.v[c], 1)
    IN  /\ \A i \in 0 .. R.shape[1] - 1, j \in 0 .. R.shape[2] - 2 :
               Near(2 * At(U, i, j), At(R, i, j) + At(R, i, j + 1))
        /\ \A i \in 0 .. R.shape[1] - 2, j \in 0 .. R.shape[2] - 1 :
               Near(2 * At(V, i, j), At(R, i, j) + At(R, i + 1, j))

KnownFacesFromVertices(k, c) ==
    LET X == FromRows(k.vert[c], 1)
        U == FromRows(k.u[c], 1)
        V == FromRows(k.v[c], 1)
    IN  /\ \A i \in 0 .. X.shape[1] - 2, j \in 0 .. X.shape[2] - 3 :
               Near(2 * At(U, i, j), At(X, i, j + 1) + At(X, i + 1, j + 1))
        /\ \A i \in 0 .. X.shape[1] - 3, j \in 0 .. X.shape[2] - 2 :
               Near(2 * At(V, i, j), At(X, i + 1, j) + At(X, i + 1, j + 1))

\* C3, as amended: for every solved grid u[i,j] is the mid-point of the
\* vertices X[i,j+1] and X[i+1,j+1] and v[i,j] that of X[i+1,j] and
\* X[i+1,j+1], for the x and for the y field, and the tables the tests accept
\* for x_u, y_u, x_v, y_v obey this rule computed from the accepted vertices.
C3_Faces ==
    HasGrid(grid) =>
        /\ FacesFromVertices(grid.x, grid.x_u, grid.x_v)
        /\ FacesFromVertices(grid.y, grid.y_u, grid.y_v)
        /\ results["u"] # "fail"
        /\ results["v"] # "fail"
        /\ fixture # "none" =>
               /\ KnownFacesFromVertices(FixtureParams[fixture].known, 1)
               /\ KnownFacesFromVertices(FixtureParams[fixture].known, 2)

\* the tests of u and v have passed on the grid of the fixture basic
C3_Witness ==
    /\ fixture = "basic"
    /\ results["u"] = "pass"
    /\ results["v"] = "pass"

\* C3 as the specification states it: u and v are mid-points of neighbouring
\* cell centres rho, and the accepted tables of u and v obey that rule
\* computed from the accepted rho.
C3_Original ==
    HasGrid(grid) =>
        /\ FacesFromRho(grid.x_rho, grid.x_u, grid.x_v)
        /\ FacesFromRho(grid.y_rho, grid.y_u, grid.y_v)
        /\ fixture # "none" =>
               /\ KnownFacesFromRho(FixtureParams[fixture].known, 1)
               /\ KnownFacesFromRho(FixtureParams[fixture].known, 2)

SetterStep == SetFocus \/ SetNy \/ SetNx

\* C5, as amended: assigning focus, ny or nx changes none of the arrays; x, y,
\* psi, rho, u, v and orthogonality change only in a generate_grid call, and
\* mask_rho only in a generate_grid or a mask_polygon call.
C5_Frame ==
    [][/\ SetterStep => Arrays(grid') = Arrays(grid)
       /\ (InUse /\ NonMaskArrays(grid') # NonMaskArrays(grid)) => GenerateGrid
       /\ (InUse /\ grid'.mask_rho # grid.mask_rho) => (GenerateGrid \/ MaskPolygon)
      ]_vars

\* ny was assigned on a solved grid and the arrays are those of the last solve
C5_Witness ==
    /\ InUse
    /\ grid.ny # grid.solved.ny
    /\ grid.x.shape = <<grid.solved.ny, grid.solved.nx>>
    /\ grid.applied # {}

\* C5 as stated: the setters change no array, and any change of an array
\* (mask_rho among them) is a generate_grid call.
C5_Original ==
    [][/\ SetterStep => Arrays(grid') = Arrays(grid)
       /\ (InUse /\ Arrays(grid') # Arrays(grid)) => GenerateGrid
      ]_vars

Centre(g, i, j) == <<At(g.x_rho, i, j), At(g.y_rho, i, j)>>

\* C7: mask_rho is all ones after a solve, and after mask_polygon calls a cell
\* is 0 exactly when its centre is inside or on the edge of one of the
\* polygons masked since the solve, and 1 otherwise (so no call turns a 0
\* into a 1); the mask the tests accept for the island agrees.
C7_Mask ==
    /\ InUse =>
           \A ij \in Idx(grid.mask_rho.shape) :
               LET c == Centre(grid, ij[1], ij[2])
                   m == At(grid.mask_rho, ij[1], ij[2])
                   covered == \E p \in grid.applied :
                                  \/ StrictlyInside(c, Polygons[p])
                                  \/ OnEdge(c, Polygons[p])
               IN  /\ m \in {0, 1}
                   /\ m = 0 <=> covered
    /\ results["mask_polygon"] # "fail"

\* both polygons were masked; a centre on the edge of one is masked, and a cell
\* outside both is not
C7_Witness ==
    /\ InUse
    /\ grid.applied = DOMAIN Polygons
    /\ \E ij \in Idx(grid.mask_rho.shape) :
           /\ \E p \in grid.applied : OnEdge(Centre(grid, ij[1], ij[2]), Polygons[p])
           /\ \A p \in grid.applied : ~StrictlyInside(Centre(grid, ij[1], ij[2]), Polygons[p])
           /\ At(grid.mask_rho, ij[1], ij[2]) = 0
    /\ \E ij \in Idx(grid.mask_rho.shape) : At(grid.mask_rho, ij[1], ij[2]) = 1

\* known_ortho of a fixture: its shape, and its values within [-1, 1]
KnownOrthoIn(k, shape) ==
    LET O == FromRows(k.ortho, 1)
    IN  /\ O.shape = shape
        /\ \A ij \in Idx(O.shape) : Abs(At(O, ij[1], ij[2])) <= 100 * 100

SolveReport(g) ==
    /\ g.rounds = Len(g.deltas)
    /\ 1 <= g.rounds /\ g.rounds <= g.opts.nnodes
    /\ \A k \in 1 .. g.rounds - 1 : g.deltas[k] >= g.opts.precision
    /\ g.converged <=> g.deltas[g.rounds] < g.opts.precision
    /\ ~g.converged => g.rounds = g.opts.nnodes
    /\ g.x.shape = <<g.solved.ny, g.solved.nx>>

\* C10: every solve ends; it stops with the first round whose largest update
\* is below precision, and after nnodes rounds otherwise; a solve that uses up
\* its rounds leaves its arrays and a flag that says not converged, and no
\* error.
C10_Terminates ==
    /\ InUse => SolveReport(grid)
    /\ HasGrid(grid2) => SolveReport(grid2)

\* a solve used up its rounds without converging, and the grid is there
C10_Witness ==
    /\ InUse
    /\ ~grid.converged
    /\ grid.rounds = grid.opts.nnodes
    /\ grid.x_psi.shape[1] > 0 /\ grid.x_psi.shape[2] > 0

\* a solve stopped before its rounds were used up, after more than one round
C10_WitnessConverged ==
    /\ InUse
    /\ grid.converged
    /\ 1 < grid.rounds /\ grid.rounds < grid.opts.nnodes

C12_Claim ==
    csa.last.op = "construct" =>
        IF Len(csa.last.xin.flat) # Len(csa.last.yin.flat)
        THEN csa.obj.status = "Failed" /\ csa.obj.error = "ValueError"
        ELSE csa.obj.status = "Made"

\* what the constructor does: the statement of C12 for numpy arrays, and
\* AttributeError whenever xin or yin is a plain sequence
C12_Code ==
    csa.last.op = "construct" =>
        IF csa.last.xin.kind = "ndarray" /\ csa.last.yin.kind = "ndarray"
        THEN IF Len(csa.last.xin.flat) # Len(csa.last.yin.flat)
             THEN csa.obj.status = "Failed" /\ csa.obj.error = "ValueError"
             ELSE csa.obj.status = "Made"
        ELSE csa.obj.status = "Failed" /\ csa.obj.error = "AttributeError"

\* C13, as stated: constructing CSA with a zin whose number of elements
\* differs from that of xin and yin fails (with ValueError, which is asked
\* here only of numpy xin and yin, where the constructor can raise nothing
\* else), so no CSA object has a stored zin and xin of different sizes.
C13_Claim ==
    /\ (csa.last.op = "construct"
         /\ Len(csa.last.zin.flat) # Len(csa.last.xin.flat)) =>
           /\ csa.obj.status = "Failed"
           /\ (csa.last.xin.kind = "ndarray" /\ csa.last.yin.kind = "ndarray") =>
                  csa.obj.error = "ValueError"
    /\ csa.obj.status = "Made" => Len(csa.obj.zin.flat) = Len(csa.obj.xin.flat)

\* what the constructor does: whether it succeeds does not depend on zin, and
\* zin is stored as it was given
C13_Code ==
    csa.last.op = "construct" =>
        /\ csa.obj.status = CSA(csa.last.xin, csa.last.yin, NdArray(<<0>>, <<>>)).status
        /\ csa.obj.status = "Made" => csa.obj.zin = csa.last.zin

\* the steps of the CSA object that are a call, and those that are an
\* assignment to zin: Call alone leaves "call" as the last operation and
\* SetZin alone "setzin"
CallStep == csa' # csa /\ csa'.last.op = "call"

SetZinStep == csa' # csa /\ csa'.last.op = "setzin"

\* the result of the last call: the shape of xout, one value per output point
\* in the order of the points, masked exactly where the library returned NaN,
\* the library's value where not masked; and the call returns exactly when
\* the stored zin is a numpy array of at most xin's size and yout has at most
\* as many elements as xout
CallResultOk(c) ==
    LET o  == c.last.out
        xo == asarray(c.last.xout)
        n  == Len(xo.flat)
    IN  /\ o.raised = "none" <=>
               /\ c.obj.zin.kind = "ndarray"
               /\ Len(c.obj.zin.flat) <= Len(c.obj.xin.flat)
               /\ Len(c.last.yout.flat) <= n
        /\ o.raised = "none" =>
               /\ o.value.shape = xo.shape
               /\ Len(o.value.data) = n /\ Len(o.value.mask) = n
               /\ \A i \in 1 .. n :
                      /\ o.value.mask[i] <=> isnan(c.last.ret[i])
                      /\ ~o.value.mask[i] => o.value.data[i] = c.last.ret[i]

\* C14: a call of a CSA object that returns gives an array of the shape of
\* xout, one value per output point in the same order, masked exactly where
\* the approximator returned NaN, and with the approximator's value where not
\* masked; no call changes xin, yin, zin or the tunables.
C14_Call ==
    [][CallStep => (csa'.obj = csa.obj /\ csa'.cls = csa.cls /\ CallResultOk(csa'))]_vars

\* a call with a 1-by-2 xout has returned one masked and one unmasked value
C14_Witness ==
    /\ csa.last.op = "call"
    /\ csa.last.out.raised = "none"
    /\ csa.last.out.value.shape = <<1, 2>>
    /\ csa.last.out.value.mask = <<TRUE, FALSE>>
    /\ csa.last.out.value.data[2] = Num(7)

\* C15, as stated: assigning zin a value whose number of elements differs
\* from xin raises ValueError and leaves the stored zin as it was; a value of
\* matching size replaces the stored zin, and a later call of the object
\* (with a yout that fits xout) is given the replaced values.
C15_Claim ==
    [][/\ SetZinStep =>
              IF Len(csa'.last.value.flat) # Len(csa.obj.xin.flat)
              THEN csa'.last.raised = "ValueError" /\ csa'.obj = csa.obj
              ELSE csa'.last.raised = "none" /\ csa'.obj.zin = csa'.last.value
       /\ (CallStep /\ csa.zset
              /\ Len(csa'.last.yout.flat) <= Len(csa'.last.xout.flat)) =>
              /\ csa'.last.out.raised = "none"
              /\ csa'.last.out.passed.zin = csa.obj.zin.flat
      ]_vars

\* what the setter and a later call do: the statement of C15 for values that
\* are numpy arrays, and AttributeError in the call after a plain sequence
\* was assigned
C15_Code ==
    [][/\ SetZinStep =>
              IF Len(csa'.last.value.flat) # Len(csa.obj.xin.flat)
              THEN csa'.last.raised = "ValueError" /\ csa'.obj = csa.obj
              ELSE csa'.last.raised = "none" /\ csa'.obj.zin = csa'.last.value
       /\ (CallStep /\ csa.zset
              /\ Len(csa'.last.yout.flat) <= Len(csa'.last.xout.flat)) =>
              IF csa.obj.zin.kind = "ndarray"
              THEN /\ csa'.last.out.raised = "none"
                   /\ csa'.last.out.passed.zin = csa.obj.zin.flat
              ELSE csa'.last.out.raised = "AttributeError"
      ]_vars

\* the candidates 1 .. k in their listed order
FirstCandidates(k) == [i \in 1 .. k |-> i]

\* C16, as stated: the candidates are tried in their listed order, the first
\* one that loads is used and none after it is tried; when none loads the
\* class definition fails with OSError('Failed to load the CSA library.').
C16_Claim ==
    csa.last.op = "define" =>
        IF csa.last.loadable # {}
        THEN LET first == CHOOSE k \in csa.last.loadable :
                              \A j \in csa.last.loadable : k <= j
             IN  /\ csa.cls.status = "defined"
                 /\ csa.cls.lib = first
                 /\ csa.cls.tried = FirstCandidates(first)
        ELSE /\ csa.cls.status = "failed"
             /\ csa.cls.error = "OSError: Failed to load the CSA library."
             /\ csa.cls.tried = FirstCandidates(Len(libcsa_paths))

\* what the class body does: the statement of C16 when a candidate loads, and
\* NameError when none does
C16_Code ==
    csa.last.op = "define" =>
        IF csa.last.loadable # {}
        THEN LET first == CHOOSE k \in csa.last.loadable :
                              \A j \in csa.last.loadable : k <= j
             IN  /\ csa.cls.status = "defined"
                 /\ csa.cls.lib = first
                 /\ csa.cls.tried = FirstCandidates(first)
        ELSE /\ csa.cls.status = "failed"
             /\ csa.cls.error = "NameError"
             /\ csa.cls.tried = FirstCandidates(Len(libcsa_paths))
====
